---- MODULE Spec2Model ----
(***************************************************************************)
(* Resilient multi-provider LLM access layer of monVOX                     *)
(* (src/src/services/LLMProvider.ts): provider registry (LLMFactory),      *)
(* feature-flag queries (FeatureFlagService) and the accessor              *)
(* (ResilientLLMService) with its circuit breaker, fallback chain and      *)
(* simulated streaming.                                                    *)
(*                                                                         *)
(* A request is modelled as a process that advances from one await point   *)
(* of the TypeScript code to the next.  Everything the code executes       *)
(* synchronously between two awaits is one step.                           *)
(***************************************************************************)
EXTENDS Integers, Sequences, FiniteSets, TLC

\* ------------------------------------------------------------------ bounds
\* the clock advances at most MaxTicks times, TickMs milliseconds at a time
MaxTicks == 2
TickMs == 60000
\* a failure is recorded only while the failure counts of all providers sum
\* to less than MaxFailures
MaxFailures == 4
\* generated contents are the texts over Alphabet of at most MaxLen characters
MaxLen == 1

\* --------------------------------------------------------------- constants
CIRCUIT_BREAKER_THRESHOLD == 3
CIRCUIT_BREAKER_TIMEOUT == 60000
\* rolloutPercentage of the LOCAL_LLM flag
LOCAL_LLM_ROLLOUT == 20

Providers == {"Local", "Anthropic", "OpenAI"}
Kinds == {"openai", "anthropic", "local", "auto"}
FlagKeys == {"strict_local_mode", "local_llm", "streaming_responses"}
Calls == {"c1", "c2"}
Alphabet == {"a", " "}
\* hashUserId(userId) % 100 of the user ids considered: 'anonymous' gives 75
PercentileSamples == {75}

\* a key that is not in a Map
Absent == -1
\* Date.now() when the process starts: more than the timeout after epoch 0, so
\* that a provider without a last-failure time (read as 0) counts as cooled down
InitialClock == 2 * TickMs

VARIABLES
    flags,            \* FeatureFlagService.flags: key -> enabled
    initialized,      \* FeatureFlagService.initialized
    userPercentile,   \* hashUserId(FeatureFlagService.userId) % 100
    providers,        \* LLMFactory.providers: kind -> cached instance (+ history)
    primaryProvider,  \* ResilientLLMService.primaryProvider (by name)
    fallbackProviders,\* ResilientLLMService.fallbackProviders (by name)
    failureCount,     \* ResilientLLMService.failureCount
    lastFailureTime,  \* ResilientLLMService.lastFailureTime
    now,              \* Date.now()
    ticks,            \* number of clock advances so far
    pinned,           \* history: provider pinned by the last switchProvider
    calls,            \* the requests in progress, one record per caller
    taskQueue,        \* a TaskQueue instance (utils/performance.ts) + history
    lruCache          \* an LRUCache instance (utils/performance.ts) + history

vars == <<flags, initialized, userPercentile, providers, primaryProvider,
          fallbackProviders, failureCount, lastFailureTime, now, ticks,
          pinned, calls, taskQueue, lruCache>>

flagVars == <<flags, initialized, userPercentile>>
circuitVars == <<failureCount, lastFailureTime>>
utilVars == <<taskQueue, lruCache>>
serviceVars == <<flags, initialized, userPercentile, providers, primaryProvider,
                 fallbackProviders, failureCount, lastFailureTime, now, ticks,
                 pinned, calls>>

\* ------------------------------------------------------------ pure helpers
RECURSIVE SeqsUpTo(_)
SeqsUpTo(n) ==
    IF n = 0 THEN {<<>>}
    ELSE LET S == SeqsUpTo(n - 1)
         IN  S \cup {Append(s, ch) : s \in {x \in S : Len(x) = n - 1}, ch \in Alphabet}

Contents == SeqsUpTo(MaxLen)

\* the content taken as one word, not split at all
Split_whole(s) == <<s>>

\* String.prototype.split(' ')
RECURSIVE Split(_)
Split(s) ==
    IF \A k \in 1..Len(s) : s[k] # " " THEN <<s>>
    ELSE LET k == CHOOSE k \in 1..Len(s) :
                     s[k] = " " /\ \A j \in 1..(k - 1) : s[j] # " "
         IN  <<SubSeq(s, 1, k - 1)>> \o Split(SubSeq(s, k + 1, Len(s)))

\* the word loop passing on the word alone, not the accumulated text
Accumulate_delta(accumulated, words, i) == words[i + 1]

\* accumulated += (i > 0 ? ' ' : '') + words[i]   (i is 0-based)
Accumulate(accumulated, words, i) ==
    accumulated \o (IF i > 0 THEN <<" ">> ELSE <<>>) \o words[i + 1]

\* ------------------------------------------------------ FeatureFlagService
HasRollout(flagKey) == flagKey = "local_llm"

isEnabled(flagKey) ==
    IF ~initialized THEN flags[flagKey]
    ELSE IF HasRollout(flagKey) /\ LOCAL_LLM_ROLLOUT < 100
         THEN flags[flagKey] /\ userPercentile < LOCAL_LLM_ROLLOUT
         ELSE flags[flagKey]

\* ------------------------------------------------------------- providers
KindName(kind) ==
    CASE kind = "openai" -> "OpenAI"
      [] kind = "anthropic" -> "Anthropic"
      [] kind = "local" -> "Local"

supportsStreaming(name) == TRUE
requiresNetwork(name) == name # "Local"

isAvailable(name) ==
    IF name = "Local" THEN isEnabled("local_llm")
    ELSE isEnabled("streaming_responses")

\* LocalLLMProvider.generateResponse throws at once when the flag is off
DisabledAtInvoke(name) == name = "Local" /\ ~isEnabled("local_llm")

\* the contents a provider's generateResponse can resolve with: Local answers
\* one of its fixed sentences, none of them empty; OpenAI and Anthropic pass
\* on whatever text the backend proxy returned
ContentsOf(name) == IF name = "Local" THEN Contents \ {<<>>} ELSE Contents

\* ------------------------------------------------------------- LLMFactory
\* the resolution without its strict-local-mode test
getOptimalProviderKind_noStrict ==
    IF isEnabled("local_llm") THEN "local" ELSE "anthropic"

getOptimalProviderKind ==
    IF isEnabled("strict_local_mode") THEN "local"
    ELSE IF isEnabled("local_llm") THEN "local"
    ELSE "anthropic"

ResolveKind(kind) == IF kind = "auto" THEN getOptimalProviderKind ELSE kind

\* the provider returned by LLMFactory.getProvider(kind)
getProvider(kind) == KindName(ResolveKind(kind))

\* the cache after LLMFactory.getProvider has been called for each of kinds
\* applied one after the other; per kind the registry holds the instance
\* cached (NoInstance while there is none) and, as history, how many
\* instances of the kind have been constructed
ConcreteKinds == Kinds \ {"auto"}
NoInstance == 0
EmptyRegistry == [k \in ConcreteKinds |-> [cached |-> NoInstance, made |-> 0]]

\* a get that constructs an instance and does not store it
createOnFirstUse_noStore(cache, kind) ==
    [cache EXCEPT ![kind] = [cached |-> @.cached, made |-> @.made + 1]]

\* providers.get(type); if there is none: new ...Provider(), providers.set
createOnFirstUse(cache, kind) ==
    IF cache[kind].cached # NoInstance THEN cache
    ELSE [cache EXCEPT ![kind] = [cached |-> @.made + 1, made |-> @.made + 1]]

RECURSIVE CacheAfter(_, _)
CacheAfter(cache, kinds) ==
    IF kinds = <<>> THEN cache
    ELSE CacheAfter(createOnFirstUse(cache, ResolveKind(Head(kinds))), Tail(kinds))

\* ------------------------------------------------------- circuit breaker
\* failureCount.get(name) || 0: the map is read in no other way, so a
\* missing key and a key set to 0 are one value, 0
Failures(fc, name) == fc[name]
LastFailure(lft, name) == IF lft[name] = Absent THEN 0 ELSE lft[name]

\* the breaker with the cooldown test written >= instead of >
shouldAttemptProvider_ge(fc, lft, t, name) ==
    IF Failures(fc, name) < CIRCUIT_BREAKER_THRESHOLD THEN TRUE
    ELSE t - LastFailure(lft, name) >= CIRCUIT_BREAKER_TIMEOUT

shouldAttemptProvider(fc, lft, t, name) ==
    IF Failures(fc, name) < CIRCUIT_BREAKER_THRESHOLD THEN TRUE
    ELSE t - LastFailure(lft, name) > CIRCUIT_BREAKER_TIMEOUT

RECURSIVE SumOver(_, _)
SumOver(fc, S) ==
    IF S = {} THEN 0
    ELSE LET p == CHOOSE p \in S : TRUE
         IN  Failures(fc, p) + SumOver(fc, S \ {p})

TotalFailures(fc) == SumOver(fc, Providers)

recordSuccessCount(fc, name) == [fc EXCEPT ![name] = 0]
\* recordSuccess without the lastFailureTime.delete
recordSuccessTime_keep(lft, name) == lft

recordSuccessTime(lft, name) == [lft EXCEPT ![name] = Absent]

\* both Maps as the constructor leaves them: no key at all
EmptyCircuit(fc, lft) ==
    \A p \in Providers : Failures(fc, p) = 0 /\ lft[p] = Absent

\* recordFailure writing 1, as if it had read an empty Map
recordFailureCount_overwrite(fc, name) == [fc EXCEPT ![name] = 1]

\* recordFailure storing the count it read, without the + 1
recordFailureCount_noIncrement(fc, name) == [fc EXCEPT ![name] = Failures(fc, name)]

recordFailureCount(fc, name) == [fc EXCEPT ![name] = Failures(fc, name) + 1]
recordFailureTime(lft, t, name) == [lft EXCEPT ![name] = t]

\* ------------------------------------------------------------ call records
\* a response whose provider field is a fixed name, not the provider's own
Response_fixedName(name, content) ==
    [kind |-> "ok", provider |-> "OpenAI", content |-> content]

\* the LLMResponse a provider's generateResponse returns (provider: this.name)
Response(name, content) == [kind |-> "ok", provider |-> name, content |-> content]

\* a provider's generateResponse rethrowing the error it caught
ThrownResult(name) == [kind |-> "thrown", provider |-> name, content |-> <<>>]

NoResult == [kind |-> "none", provider |-> "none", content |-> <<>>]
ErrorResult == [kind |-> "error", provider |-> "none", content |-> <<>>]

\* the Error objects that reach a caller: the one generateResponse of the
\* accessor creates ('All LLM providers are currently unavailable'), and the
\* one a provider's generateResponse threw, as thrown
AllProvidersError == [by |-> "accessor", of |-> "none"]
ProviderError(name) == [by |-> "provider", of |-> name]
NoError == [by |-> "none", of |-> "none"]

\* the callbacks of a StreamingCallback, as entries of the history cb
OnToken(text) == [k |-> "token", text |-> text, err |-> NoError]
OnComplete(text) == [k |-> "complete", text |-> text, err |-> NoError]
OnError(err) == [k |-> "error", text |-> <<>>, err |-> err]

\* a request record; log, cb, audit and fresh are history (fresh: the circuit
\* state was empty when the request began)
IdleCall ==
    [pc |-> "idle", op |-> "none", avail |-> FALSE, idx |-> 0, iter |-> <<>>,
     callee |-> "none", disabled |-> FALSE, log |-> <<>>, cb |-> <<>>,
     result |-> NoResult, words |-> <<>>, acc |-> <<>>, i |-> 0,
     fresh |-> FALSE, audit |-> <<>>]

Ev(e, p, role) == [e |-> e, p |-> p, role |-> role]

\* ------------------------------------------------------------ audit events
\* a call of AuditService.log(action, detail) made by `by` (a provider or the
\* accessor); names is the provider the detail text names, at the number of
\* log events that came before it
AuditEv(action, by, names) == [action |-> action, by |-> by, names |-> names, at |-> 0]
Stamp(evs, at) == [k \in 1..Len(evs) |-> [evs[k] EXCEPT !.at = at]]

\* a provider's generateResponse that logs no failure event at all
ProviderFailureAudit_silent(name, disabled) == <<>>

\* what a provider's generateResponse logs when it fails: '<name> API call
\* failed' / 'Local LLM inference failed' from its catch; nothing when Local
\* throws 'Local LLM is not enabled', which happens before the try
ProviderFailureAudit(name, disabled) ==
    IF disabled THEN <<>> ELSE <<AuditEv("auth_failed", name, name)>>

\* '<name> API call completed' / 'Local LLM inference completed'
ProviderSuccessAudit(name) == <<AuditEv("memory_write", name, name)>>

\* the accessor's 'Primary LLM failed: <error>'
PrimaryFailedAudit == <<AuditEv("auth_failed", "accessor", "none")>>

\* the accessor's 'Falling back to <name>'
FallingBackAudit(name) == <<AuditEv("settings_change", "accessor", name)>>

\* pcs at which the request waits on the network; at "sDelay" it waits on a
\* timer, and at every other pc only for a promise that is already settled
WaitPcs == {"idle", "gPrimCall", "gFbCall", "sProvCall", "pCall"}

\* the clock advances between two steps of a request only while it waits on
\* the network: a chain of already-settled promises takes no time, and during
\* the word loop of a stream, which reads nothing but the request's own
\* record, a clock step commutes with the request's steps
EnvEnabled == \A c \in Calls : calls[c].pc \in WaitPcs
AllIdle == \A c \in Calls : calls[c].pc = "idle"

\* ---------------------------------------------------------------------------
\* utils/performance.ts: TaskQueue and LRUCache
\* ---------------------------------------------------------------------------

MaxTasks == 3          \* tasks handed to TaskQueue.add
MaxConcurrency == 2    \* largest configured concurrency
MaxKeys == 3           \* distinct cache keys
MaxCacheSize == 2      \* largest configured maxSize

\* constructor(concurrency = 1)
DefaultConcurrency == 1

Tasks == 1..MaxTasks
Keys == 1..MaxKeys

\* The JavaScript value undefined, which V may include.
Undefined == "undefined"
Values == {Undefined, "v"}

\* new TaskQueue(n).  queue and activeCount are the object's fields; state,
\* promise, started, waited and added record what happened to each task
\* (waited: the tasks whose add() left them in the queue).
NewTaskQueue(n) ==
    [concurrency |-> n,
     queue       |-> <<>>,
     activeCount |-> 0,
     state       |-> [t \in Tasks |-> "new"],
     promise     |-> [t \in Tasks |-> "none"],
     started     |-> <<>>,
     waited      |-> {},
     added       |-> 0]

\* process() without the activeCount test.
process_ignoreLimit(q) ==
    IF Len(q.queue) = 0 THEN q
    ELSE LET task == Head(q.queue) IN
         [q EXCEPT !.activeCount = @ + 1,
                   !.queue = Tail(@),
                   !.state[task] = "running",
                   !.started = Append(@, task)]

\* TaskQueue.process() up to its await: return when the limit is reached or
\* nothing is queued, else count the task in, shift it off and invoke it.
process(q) ==
    IF q.activeCount >= q.concurrency \/ Len(q.queue) = 0 THEN q
    ELSE LET task == Head(q.queue) IN
         [q EXCEPT !.activeCount = @ + 1,
                   !.queue = Tail(@),
                   !.state[task] = "running",
                   !.started = Append(@, task)]

\* Map<K, V> as the sequence of its entries in insertion order.
MapKeys(m) == {m[i].key : i \in 1..Len(m)}
MapHas(m, k) == k \in MapKeys(m)
MapGet(m, k) ==
    IF MapHas(m, k) THEN (CHOOSE e \in {m[i] : i \in 1..Len(m)} : e.key = k).value
    ELSE Undefined
MapDelete(m, k) == SelectSeq(m, LAMBDA e : e.key # k)
MapSet(m, k, v) ==
    IF MapHas(m, k)
    THEN [i \in 1..Len(m) |-> IF m[i].key = k THEN [key |-> k, value |-> v] ELSE m[i]]
    ELSE Append(m, [key |-> k, value |-> v])

\* Recency history: k becomes the most recently touched key.
Touch(order, k) == Append(SelectSeq(order, LAMBDA x : x # k), k)

\* new LRUCache(maxSize).  cache is the object's Map; touched lists the keys
\* in the order get or set last named them while they were in the cache.
NewLRUCache(n) ==
    [maxSize |-> n, cache |-> <<>>, touched |-> <<>>,
     last |-> [op |-> "none", key |-> 0, returned |-> Undefined]]

\* LRUCache.get: the entry moves to the end only when its value is not
\* undefined.
get(c, key) ==
    LET value == MapGet(c.cache, key) IN
    [c EXCEPT !.cache = IF value # Undefined THEN MapSet(MapDelete(@, key), key, value) ELSE @,
              !.touched = IF MapHas(c.cache, key) THEN Touch(@, key) ELSE @,
              !.last = [op |-> "get", key |-> key, returned |-> value]]

\* LRUCache.set: delete an existing key, else when full delete the first key
\* of the Map (firstKey is undefined only for an empty Map); then insert.
set(c, key, value) ==
    LET kept == IF MapHas(c.cache, key) THEN MapDelete(c.cache, key)
                ELSE IF Len(c.cache) >= c.maxSize /\ Len(c.cache) > 0
                     THEN MapDelete(c.cache, Head(c.cache).key)
                     ELSE c.cache
    IN [c EXCEPT !.cache = MapSet(kept, key, value),
                 !.touched = Touch(@, key),
                 !.last = [op |-> "set", key |-> key, returned |-> Undefined]]

ServiceInit ==
    /\ flags = [k \in FlagKeys |-> k # "local_llm"]
    /\ initialized = FALSE
    /\ userPercentile = 0
    /\ providers = CacheAfter(EmptyRegistry, <<"anthropic", "openai">>)
    /\ primaryProvider = "Anthropic"
    /\ fallbackProviders = <<"OpenAI">>
    /\ failureCount = [p \in Providers |-> 0]
    /\ lastFailureTime = [p \in Providers |-> Absent]
    /\ now = InitialClock
    /\ ticks = 0
    /\ pinned = "none"
    /\ calls = [c \in Calls |-> IdleCall]

Init ==
    /\ ServiceInit
    /\ taskQueue = NewTaskQueue(DefaultConcurrency)
    /\ lruCache = NewLRUCache(1)

\* ------------------------------------------------- ResilientLLMService
\* initializeProviders(): the values it assigns
\* the primary kept from the previous resolution
initPrimary_memoized == primaryProvider

initPrimary == getProvider("auto")
\* the two fallbacks in the other order
initFallbacks_reversed == <<getProvider("openai"), getProvider("anthropic")>>

initFallbacks == <<getProvider("anthropic"), getProvider("openai")>>
initCache(cache) == CacheAfter(cache, <<"auto", "anthropic", "openai">>)

\* a generateResponse that ends in the error whatever a provider answered
GenFinish_dropResponse(rec, res) ==
    [rec EXCEPT !.pc = "done", !.result = ErrorResult,
                !.cb = IF rec.op = "stream"
                       THEN Append(@, OnError(AllProvidersError))
                       ELSE @]

\* how a generateResponse of the accessor ends: returned to the caller, or,
\* when streamResponse called it, handed to onComplete / onError
GenFinish(rec, res) ==
    [rec EXCEPT !.pc = "done", !.result = res,
                !.cb = IF rec.op = "stream"
                       THEN Append(@, IF res.kind = "ok"
                                      THEN OnComplete(res.content)
                                      ELSE OnError(AllProvidersError))
                       ELSE @]

\* the fallback loop ending one position early
FallbackScan_stopEarly(iter, i, fc, lft, t, log) ==
    IF i >= Len(iter) THEN [idx |-> 0, log |-> log]
    ELSE IF ~shouldAttemptProvider(fc, lft, t, iter[i])
         THEN [idx |-> 0, log |-> Append(log, Ev("skip", iter[i], i))]
         ELSE [idx |-> i, log |-> Append(log, Ev("check", iter[i], i))]

\* the for-of loop over the fallbacks, run from position i up to the next
\* await: candidates whose circuit is open are passed (continue), the first
\* other one has its isAvailable() invoked; idx = 0 when the list is exhausted
RECURSIVE FallbackScan(_, _, _, _, _, _)
FallbackScan(iter, i, fc, lft, t, log) ==
    IF i > Len(iter) THEN [idx |-> 0, log |-> log]
    ELSE IF ~shouldAttemptProvider(fc, lft, t, iter[i])
         THEN FallbackScan(iter, i + 1, fc, lft, t, Append(log, Ev("skip", iter[i], i)))
         ELSE [idx |-> i, log |-> Append(log, Ev("check", iter[i], i))]

EnterLoop(rec, iter, i, fc, lft) ==
    LET s == FallbackScan(iter, i, fc, lft, now, rec.log)
    IN  IF s.idx = 0
        THEN GenFinish([rec EXCEPT !.log = s.log, !.iter = iter], ErrorResult)
        ELSE [rec EXCEPT !.pc = "gFbAvail", !.idx = s.idx, !.iter = iter,
                         !.avail = isAvailable(iter[s.idx]), !.log = s.log]

\* generateResponse, up to `await this.initializeProviders()`
BeginGenerate(c) ==
    /\ calls[c].pc = "idle"
    /\ primaryProvider' = initPrimary
    /\ fallbackProviders' = initFallbacks
    /\ providers' = initCache(providers)
    /\ calls' = [calls EXCEPT ![c] = [IdleCall EXCEPT !.pc = "gInit", !.op = "generate",
                         !.fresh = EmptyCircuit(failureCount, lastFailureTime)]]
    /\ UNCHANGED <<utilVars, flagVars, circuitVars, now, ticks, pinned>>

\* the circuit check of the primary, up to `await isAvailable()`
PrimaryCheck(c) ==
    LET rec == calls[c] IN
    /\ rec.pc = "gInit"
    /\ calls' = [calls EXCEPT ![c] =
         IF shouldAttemptProvider(failureCount, lastFailureTime, now, primaryProvider)
         THEN [rec EXCEPT !.pc = "gPrimAvail", !.avail = isAvailable(primaryProvider),
                          !.log = Append(@, Ev("check", primaryProvider, 0))]
         ELSE EnterLoop([rec EXCEPT !.log = Append(@, Ev("skip", primaryProvider, 0))],
                        fallbackProviders, 1, failureCount, lastFailureTime)]
    /\ UNCHANGED <<utilVars, flagVars, circuitVars, providers, primaryProvider,
                   fallbackProviders, now, ticks, pinned>>

\* the primary called whatever isAvailable() answered
PrimaryAvail_ignoreAvail(c) ==
    LET rec == calls[c] IN
    /\ rec.pc = "gPrimAvail"
    /\ calls' = [calls EXCEPT ![c] =
         [rec EXCEPT !.pc = "gPrimCall", !.callee = primaryProvider,
                     !.disabled = DisabledAtInvoke(primaryProvider),
                     !.log = Append(@, Ev("call", primaryProvider, 0))]]
    /\ UNCHANGED <<utilVars, flagVars, circuitVars, providers, primaryProvider,
                   fallbackProviders, now, ticks, pinned>>

\* isAvailable() of the primary has answered
PrimaryAvail(c) ==
    LET rec == calls[c] IN
    /\ rec.pc = "gPrimAvail"
    /\ calls' = [calls EXCEPT ![c] =
         IF rec.avail
         THEN [rec EXCEPT !.pc = "gPrimCall", !.callee = primaryProvider,
                          !.disabled = DisabledAtInvoke(primaryProvider),
                          !.log = Append(@, Ev("call", primaryProvider, 0))]
         ELSE EnterLoop([rec EXCEPT !.log = Append(@, Ev("unavail", primaryProvider, 0))],
                        fallbackProviders, 1, failureCount, lastFailureTime)]
    /\ UNCHANGED <<utilVars, flagVars, circuitVars, providers, primaryProvider,
                   fallbackProviders, now, ticks, pinned>>

\* A provider's generateResponse resolves or rejects as the network, the
\* backend proxy and the performance monitor decide: both outcomes are open
\* to every call, except that Local rejects when its flag was off at the call.

\* the primary's generateResponse resolved with a response
PrimarySuccess(c) ==
    LET rec == calls[c] IN
    /\ rec.pc = "gPrimCall"
    /\ ~rec.disabled
    /\ \E content \in ContentsOf(rec.callee) :
         calls' = [calls EXCEPT ![c] =
            GenFinish([rec EXCEPT !.log = Append(@, Ev("ok", rec.callee, 0)),
                                  !.audit = @ \o Stamp(ProviderSuccessAudit(rec.callee),
                                                       Len(rec.log))],
                      Response(rec.callee, content))]
    /\ failureCount' = recordSuccessCount(failureCount, primaryProvider)
    /\ lastFailureTime' = recordSuccessTime(lastFailureTime, primaryProvider)
    /\ UNCHANGED <<utilVars, flagVars, providers, primaryProvider, fallbackProviders,
                   now, ticks, pinned>>

\* the primary's generateResponse rejected
PrimaryFailure(c) ==
    LET rec == calls[c]
        fc == recordFailureCount(failureCount, primaryProvider)
        lft == recordFailureTime(lastFailureTime, now, primaryProvider)
    IN
    /\ rec.pc = "gPrimCall"
    /\ TotalFailures(failureCount) < MaxFailures
    /\ failureCount' = fc
    /\ lastFailureTime' = lft
    /\ calls' = [calls EXCEPT ![c] =
         EnterLoop([rec EXCEPT !.log = Append(@, Ev("fail", rec.callee, 0)),
                               !.audit = @ \o Stamp(ProviderFailureAudit(rec.callee, rec.disabled),
                                                    Len(rec.log))
                                           \o Stamp(PrimaryFailedAudit, Len(rec.log) + 1)],
                   fallbackProviders, 1, fc, lft)]
    /\ UNCHANGED <<utilVars, flagVars, providers, primaryProvider, fallbackProviders,
                   now, ticks, pinned>>

\* isAvailable() of the fallback at position idx has answered
FallbackAvail(c) ==
    LET rec == calls[c]
        fallback == rec.iter[rec.idx]
    IN
    /\ rec.pc = "gFbAvail"
    /\ calls' = [calls EXCEPT ![c] =
         IF rec.avail
         THEN [rec EXCEPT !.pc = "gFbCall", !.callee = fallback,
                          !.disabled = DisabledAtInvoke(fallback),
                          !.audit = @ \o Stamp(FallingBackAudit(fallback), Len(rec.log)),
                          !.log = Append(@, Ev("call", fallback, rec.idx))]
         ELSE EnterLoop([rec EXCEPT !.log = Append(@, Ev("unavail", fallback, rec.idx))],
                        rec.iter, rec.idx + 1, failureCount, lastFailureTime)]
    /\ UNCHANGED <<utilVars, flagVars, circuitVars, providers, primaryProvider,
                   fallbackProviders, now, ticks, pinned>>

\* the fallback's generateResponse resolved with a response
FallbackSuccess(c) ==
    LET rec == calls[c]
        fallback == rec.iter[rec.idx]
    IN
    /\ rec.pc = "gFbCall"
    /\ ~rec.disabled
    /\ \E content \in ContentsOf(rec.callee) :
         calls' = [calls EXCEPT ![c] =
            GenFinish([rec EXCEPT !.log = Append(@, Ev("ok", rec.callee, rec.idx)),
                                  !.audit = @ \o Stamp(ProviderSuccessAudit(rec.callee),
                                                       Len(rec.log))],
                      Response(rec.callee, content))]
    /\ failureCount' = recordSuccessCount(failureCount, fallback)
    /\ lastFailureTime' = recordSuccessTime(lastFailureTime, fallback)
    /\ UNCHANGED <<utilVars, flagVars, providers, primaryProvider, fallbackProviders,
                   now, ticks, pinned>>

\* the fallback's generateResponse rejected
FallbackFailure(c) ==
    LET rec == calls[c]
        fallback == rec.iter[rec.idx]
        fc == recordFailureCount(failureCount, fallback)
        lft == recordFailureTime(lastFailureTime, now, fallback)
    IN
    /\ rec.pc = "gFbCall"
    /\ TotalFailures(failureCount) < MaxFailures
    /\ failureCount' = fc
    /\ lastFailureTime' = lft
    /\ calls' = [calls EXCEPT ![c] =
         EnterLoop([rec EXCEPT !.log = Append(@, Ev("fail", rec.callee, rec.idx)),
                               !.audit = @ \o Stamp(ProviderFailureAudit(rec.callee, rec.disabled),
                                                    Len(rec.log))],
                   rec.iter, rec.idx + 1, fc, lft)]
    /\ UNCHANGED <<utilVars, flagVars, providers, primaryProvider, fallbackProviders,
                   now, ticks, pinned>>

\* the caller has the outcome; the request is over
Finish(c) ==
    /\ calls[c].pc = "done"
    /\ calls' = [calls EXCEPT ![c] = IdleCall]
    /\ UNCHANGED <<utilVars, flagVars, circuitVars, providers, primaryProvider,
                   fallbackProviders, now, ticks, pinned>>

\* streamResponse of the accessor, up to `await this.initializeProviders()`
BeginStream(c) ==
    /\ calls[c].pc = "idle"
    /\ primaryProvider' = initPrimary
    /\ fallbackProviders' = initFallbacks
    /\ providers' = initCache(providers)
    /\ calls' = [calls EXCEPT ![c] = [IdleCall EXCEPT !.pc = "sInit", !.op = "stream",
                         !.fresh = EmptyCircuit(failureCount, lastFailureTime)]]
    /\ UNCHANGED <<utilVars, flagVars, circuitVars, now, ticks, pinned>>

\* `await this.primaryProvider.isAvailable()` is invoked
StreamCheck(c) ==
    LET rec == calls[c] IN
    /\ rec.pc = "sInit"
    /\ calls' = [calls EXCEPT ![c] =
         [rec EXCEPT !.pc = "sAvail", !.avail = isAvailable(primaryProvider),
                     !.log = Append(@, Ev("scheck", primaryProvider, 0))]]
    /\ UNCHANGED <<utilVars, flagVars, circuitVars, providers, primaryProvider,
                   fallbackProviders, now, ticks, pinned>>

\* the primary's streamResponse invoked whatever isAvailable() answered
StreamAvail_ignoreAvail(c) ==
    LET rec == calls[c] IN
    /\ rec.pc = "sAvail"
    /\ calls' = [calls EXCEPT ![c] =
         [rec EXCEPT !.pc = "sProvCall", !.callee = primaryProvider,
                     !.disabled = DisabledAtInvoke(primaryProvider),
                     !.log = Append(@, Ev("scall", primaryProvider, 0))]]
    /\ UNCHANGED <<utilVars, flagVars, circuitVars, providers, primaryProvider,
                   fallbackProviders, now, ticks, pinned>>

\* isAvailable() has answered: the primary's streamResponse is invoked, which
\* invokes its own generateResponse; or the accessor's generateResponse is
\* invoked, which runs initializeProviders() up to its first await
StreamAvail(c) ==
    LET rec == calls[c]
        streams == rec.avail /\ supportsStreaming(primaryProvider)
    IN
    /\ rec.pc = "sAvail"
    /\ calls' = [calls EXCEPT ![c] =
         IF streams
         THEN [rec EXCEPT !.pc = "sProvCall", !.callee = primaryProvider,
                          !.disabled = DisabledAtInvoke(primaryProvider),
                          !.log = Append(@, Ev("scall", primaryProvider, 0))]
         ELSE [rec EXCEPT !.pc = "gInit"]]
    /\ primaryProvider' = IF streams THEN primaryProvider ELSE initPrimary
    /\ fallbackProviders' = IF streams THEN fallbackProviders ELSE initFallbacks
    /\ providers' = IF streams THEN providers ELSE initCache(providers)
    /\ UNCHANGED <<utilVars, flagVars, circuitVars, now, ticks, pinned>>

\* provider.streamResponse: its generateResponse resolved; the first pass of
\* the word loop runs up to the first delay
StreamProvSuccess(c) ==
    LET rec == calls[c] IN
    /\ rec.pc = "sProvCall"
    /\ ~rec.disabled
    /\ \E content \in ContentsOf(rec.callee) :
         LET words == Split(content)
             accumulated == Accumulate(<<>>, words, 0)
         IN  calls' = [calls EXCEPT ![c] =
               [rec EXCEPT !.pc = "sDelay", !.words = words, !.acc = accumulated,
                           !.i = 1,
                           !.result = Response(rec.callee, content),
                           !.log = Append(@, Ev("sok", rec.callee, 0)),
                           !.audit = @ \o Stamp(ProviderSuccessAudit(rec.callee),
                                                Len(rec.log)),
                           !.cb = Append(@, OnToken(accumulated))]]
    /\ UNCHANGED <<utilVars, flagVars, circuitVars, providers, primaryProvider,
                   fallbackProviders, now, ticks, pinned>>

\* provider.streamResponse: its generateResponse rejected; the provider's own
\* catch calls onError and streamResponse returns normally
StreamProvFailure(c) ==
    LET rec == calls[c] IN
    /\ rec.pc = "sProvCall"
    /\ calls' = [calls EXCEPT ![c] =
         [rec EXCEPT !.pc = "done", !.result = ErrorResult,
                     !.log = Append(@, Ev("sfail", rec.callee, 0)),
                     !.audit = @ \o Stamp(ProviderFailureAudit(rec.callee, rec.disabled),
                                          Len(rec.log)),
                     !.cb = Append(@, OnError(ProviderError(rec.callee)))]]
    /\ UNCHANGED <<utilVars, flagVars, circuitVars, providers, primaryProvider,
                   fallbackProviders, now, ticks, pinned>>

\* a delay of the word loop is over: the next word, or onComplete
StreamEmit(c) ==
    LET rec == calls[c] IN
    /\ rec.pc = "sDelay"
    /\ calls' = [calls EXCEPT ![c] =
         IF rec.i < Len(rec.words)
         THEN LET accumulated == Accumulate(rec.acc, rec.words, rec.i)
              IN  [rec EXCEPT !.acc = accumulated, !.i = @ + 1,
                              !.cb = Append(@, OnToken(accumulated))]
         ELSE [rec EXCEPT !.pc = "done",
                          !.cb = Append(@, OnComplete(rec.result.content))]]
    /\ UNCHANGED <<utilVars, flagVars, circuitVars, providers, primaryProvider,
                   fallbackProviders, now, ticks, pinned>>

\* ------------------------------------------------ a provider used directly
\* LLMFactory.getProvider and the provider classes are exported: a provider's
\* own generateResponse / streamResponse can be called without the accessor.

\* what the start of a provider's generateResponse adds to the log: the
\* invocation, and for OpenAI and Anthropic the request to the backend proxy,
\* which the body reaches without a test of isAvailable()
InvokeLog(name) ==
    <<Ev("pcall", name, 0)>> \o
    (IF requiresNetwork(name) THEN <<Ev("net", name, 0)>> ELSE <<>>)

\* LLMFactory.getProvider(kind).generateResponse(messages) is invoked
ProviderGenerate(c, kind) ==
    LET name == getProvider(kind) IN
    /\ calls[c].pc = "idle"
    /\ providers' = CacheAfter(providers, <<kind>>)
    /\ calls' = [calls EXCEPT ![c] =
         [IdleCall EXCEPT !.pc = "pCall", !.op = "pGenerate", !.callee = name,
                          !.avail = isAvailable(name),
                          !.disabled = DisabledAtInvoke(name),
                          !.log = InvokeLog(name)]]
    /\ UNCHANGED <<utilVars, flagVars, circuitVars, primaryProvider, fallbackProviders,
                   now, ticks, pinned>>

\* LLMFactory.getProvider(kind).streamResponse(messages, options, callbacks)
\* is invoked: it invokes the provider's generateResponse
ProviderStream(c, kind) ==
    LET name == getProvider(kind) IN
    /\ calls[c].pc = "idle"
    /\ providers' = CacheAfter(providers, <<kind>>)
    /\ calls' = [calls EXCEPT ![c] =
         [IdleCall EXCEPT !.pc = "sProvCall", !.op = "pStream", !.callee = name,
                          !.avail = isAvailable(name),
                          !.disabled = DisabledAtInvoke(name),
                          !.log = InvokeLog(name)]]
    /\ UNCHANGED <<utilVars, flagVars, circuitVars, primaryProvider, fallbackProviders,
                   now, ticks, pinned>>

\* the provider's generateResponse resolved
ProviderSuccess(c) ==
    LET rec == calls[c] IN
    /\ rec.pc = "pCall"
    /\ ~rec.disabled
    /\ \E content \in ContentsOf(rec.callee) :
         calls' = [calls EXCEPT ![c] =
            [rec EXCEPT !.pc = "done", !.result = Response(rec.callee, content),
                        !.log = Append(@, Ev("pok", rec.callee, 0)),
                        !.audit = @ \o Stamp(ProviderSuccessAudit(rec.callee),
                                             Len(rec.log))]]
    /\ UNCHANGED <<utilVars, flagVars, circuitVars, providers, primaryProvider,
                   fallbackProviders, now, ticks, pinned>>

\* the provider's generateResponse rejected
ProviderFailure(c) ==
    LET rec == calls[c] IN
    /\ rec.pc = "pCall"
    /\ calls' = [calls EXCEPT ![c] =
         [rec EXCEPT !.pc = "done", !.result = ThrownResult(rec.callee),
                     !.log = Append(@, Ev("pfail", rec.callee, 0)),
                     !.audit = @ \o Stamp(ProviderFailureAudit(rec.callee, rec.disabled),
                                          Len(rec.log))]]
    /\ UNCHANGED <<utilVars, flagVars, circuitVars, providers, primaryProvider,
                   fallbackProviders, now, ticks, pinned>>

\* The user interface drives the accessor as one logical caller: a setting
\* (switchProvider, a flag override, the flag service's initialize) changes
\* between two requests, not during one.

\* switchProvider(type)
SwitchProvider(kind) ==
    /\ AllIdle
    /\ primaryProvider' = getProvider(kind)
    /\ providers' = CacheAfter(providers, <<kind>>)
    /\ pinned' = IF kind = "auto" THEN "none" ELSE KindName(kind)
    /\ UNCHANGED <<utilVars, flagVars, circuitVars, fallbackProviders, now, ticks, calls>>

\* switchProvider(type) has no await: when requests overlap it runs between
\* two steps of a request as well
SwitchProviderConcurrent(kind) ==
    /\ primaryProvider' = getProvider(kind)
    /\ providers' = CacheAfter(providers, <<kind>>)
    /\ pinned' = IF kind = "auto" THEN "none" ELSE KindName(kind)
    /\ UNCHANGED <<utilVars, flagVars, circuitVars, fallbackProviders, now, ticks, calls>>

\* ------------------------------------------------------------ environment
\* FeatureFlagService.initialize(userId)
Initialize(percentile) ==
    /\ AllIdle
    /\ ~initialized
    /\ initialized' = TRUE
    /\ userPercentile' = percentile
    /\ UNCHANGED <<utilVars, flags, circuitVars, providers, primaryProvider,
                   fallbackProviders, now, ticks, pinned, calls>>

\* FeatureFlagService.setFlagOverride(flagKey, enabled)
SetFlagOverride(flagKey, enabled) ==
    /\ AllIdle
    /\ flags' = [flags EXCEPT ![flagKey] = enabled]
    /\ UNCHANGED <<utilVars, initialized, userPercentile, circuitVars, providers,
                   primaryProvider, fallbackProviders, now, ticks, pinned, calls>>

\* time passes
Tick ==
    /\ EnvEnabled
    /\ ticks < MaxTicks
    /\ ticks' = ticks + 1
    /\ now' = now + TickMs
    /\ UNCHANGED <<utilVars, flagVars, circuitVars, providers, primaryProvider,
                   fallbackProviders, pinned, calls>>

\* one caller, one request at a time
SeqCalls == {"c1"}

Next ==
    \/ \E c \in SeqCalls : BeginGenerate(c)
    \/ \E c \in SeqCalls : PrimaryCheck(c)
    \/ \E c \in SeqCalls : PrimaryAvail(c)
    \/ \E c \in SeqCalls : PrimarySuccess(c)
    \/ \E c \in SeqCalls : PrimaryFailure(c)
    \/ \E c \in SeqCalls : FallbackAvail(c)
    \/ \E c \in SeqCalls : FallbackSuccess(c)
    \/ \E c \in SeqCalls : FallbackFailure(c)
    \/ \E c \in SeqCalls : Finish(c)
    \/ \E c \in SeqCalls : BeginStream(c)
    \/ \E c \in SeqCalls : StreamCheck(c)
    \/ \E c \in SeqCalls : StreamAvail(c)
    \/ \E c \in SeqCalls : StreamProvSuccess(c)
    \/ \E c \in SeqCalls : StreamProvFailure(c)
    \/ \E c \in SeqCalls : StreamEmit(c)
    \/ \E kind \in Kinds : SwitchProvider(kind)
    \/ \E percentile \in PercentileSamples : Initialize(percentile)
    \/ \E flagKey \in FlagKeys, enabled \in BOOLEAN : SetFlagOverride(flagKey, enabled)
    \/ Tick

Spec == Init /\ [][Next]_vars

\* generate requests of several callers on the one accessor, interleaving at
\* their awaits
ConcNext ==
    \/ \E c \in Calls : BeginGenerate(c)
    \/ \E c \in Calls : PrimaryCheck(c)
    \/ \E c \in Calls : PrimaryAvail(c)
    \/ \E c \in Calls : PrimarySuccess(c)
    \/ \E c \in Calls : PrimaryFailure(c)
    \/ \E c \in Calls : FallbackAvail(c)
    \/ \E c \in Calls : FallbackSuccess(c)
    \/ \E c \in Calls : FallbackFailure(c)
    \/ \E c \in Calls : Finish(c)
    \/ \E flagKey \in FlagKeys, enabled \in BOOLEAN : SetFlagOverride(flagKey, enabled)
    \/ Tick

ConcSpec == Init /\ [][ConcNext]_vars

\* the generate requests of one caller, with switchProvider called at any
\* moment, between two steps of a request as well
SwitchNext ==
    \/ \E c \in SeqCalls : BeginGenerate(c)
    \/ \E c \in SeqCalls : PrimaryCheck(c)
    \/ \E c \in SeqCalls : PrimaryAvail(c)
    \/ \E c \in SeqCalls : PrimarySuccess(c)
    \/ \E c \in SeqCalls : PrimaryFailure(c)
    \/ \E c \in SeqCalls : FallbackAvail(c)
    \/ \E c \in SeqCalls : FallbackSuccess(c)
    \/ \E c \in SeqCalls : FallbackFailure(c)
    \/ \E c \in SeqCalls : Finish(c)
    \/ \E kind \in Kinds : SwitchProviderConcurrent(kind)

SwitchSpec == Init /\ [][SwitchNext]_vars

\* the providers called directly, one call at a time, under every flag state
ProviderNext ==
    \/ \E c \in SeqCalls, kind \in Kinds : ProviderGenerate(c, kind)
    \/ \E c \in SeqCalls, kind \in Kinds : ProviderStream(c, kind)
    \/ \E c \in SeqCalls : ProviderSuccess(c)
    \/ \E c \in SeqCalls : ProviderFailure(c)
    \/ \E c \in SeqCalls : StreamProvSuccess(c)
    \/ \E c \in SeqCalls : StreamProvFailure(c)
    \/ \E c \in SeqCalls : StreamEmit(c)
    \/ \E c \in SeqCalls : Finish(c)
    \/ \E percentile \in PercentileSamples : Initialize(percentile)
    \/ \E flagKey \in FlagKeys, enabled \in BOOLEAN : SetFlagOverride(flagKey, enabled)

ProviderSpec == Init /\ [][ProviderNext]_vars

TypeOK ==
    /\ flags \in [FlagKeys -> BOOLEAN]
    /\ initialized \in BOOLEAN
    /\ providers \in [ConcreteKinds -> [cached : 0..1, made : 0..1]]
    /\ primaryProvider \in Providers
    /\ \A p \in Providers : failureCount[p] \in 0..MaxFailures
    /\ \A c \in Calls : calls[c].pc \in WaitPcs \cup
           {"gInit", "gPrimAvail", "gFbAvail", "sInit", "sAvail", "sDelay", "done"}
    /\ \A c \in Calls : calls[c].op \in {"none", "generate", "stream", "pGenerate", "pStream"}

\* ================================================================ claims
\* the events a step appends to the log of request c
NewEvents(c) ==
    LET old == calls[c].log
        new == calls'[c].log
    IN  IF Len(new) > Len(old) THEN {new[k] : k \in (Len(old) + 1)..Len(new)} ELSE {}

\* the positions of log that hold an event of kind e
EventsAt(log, e) == {k \in 1..Len(log) : log[k].e = e}

\* provider p has 3 or more failures and at most 60000 ms have passed since
\* its last failure
CircuitOpen(fc, lft, t, p) == fc[p] >= 3 /\ lft[p] # Absent /\ t - lft[p] <= 60000

\* C1: once provider P has 3 consecutive failures the generate dispatch passes
\* over P, without an availability check or a call, exactly as long as no more
\* than 60000 ms have passed since P's last failure; after that P is let
\* through, and when the attempt let through fails the failure is stamped with
\* the current time, so that P is passed over for another 60000 ms.
C1_CircuitBreaker ==
    [][\A c \in Calls : \A ev \in NewEvents(c) :
          /\ ev.e \in {"check", "call"}
                => ~CircuitOpen(failureCount', lastFailureTime', now', ev.p)
          /\ ev.e = "skip"
                => CircuitOpen(failureCount', lastFailureTime', now', ev.p)
          /\ (ev.e = "fail" /\ failureCount[ev.p] >= 3)
                => /\ failureCount'[ev.p] > 3
                   /\ lastFailureTime'[ev.p] = now'
                   /\ CircuitOpen(failureCount', lastFailureTime', now', ev.p)]_vars

\* a provider with 3 failures was let through after its cooldown, failed, and
\* is passed over again later in the same dispatch
C1_Witness ==
    \E c \in Calls : \E p \in Providers :
        /\ failureCount[p] >= 4
        /\ \E i, j \in 1..Len(calls[c].log) :
              /\ i < j
              /\ calls[c].log[i] = Ev("fail", p, 0)
              /\ calls[c].log[j].e = "skip" /\ calls[c].log[j].p = p

\* C2: in a generate dispatch where the primary's call fails and the first
\* fallback's call succeeds, the result names the first fallback as provider
\* and no candidate after the first fallback is checked or called.
C2_FallbackOrdering ==
    \A c \in Calls :
        LET rec == calls[c] IN
        (/\ rec.pc = "done"
         /\ \E k \in EventsAt(rec.log, "fail") : rec.log[k].role = 0
         /\ \E k \in EventsAt(rec.log, "ok") : rec.log[k].role = 1)
        => /\ rec.result.kind = "ok"
           /\ rec.result.provider = fallbackProviders[1]
           /\ \A k \in 1..Len(rec.log) : rec.log[k].role <= 1
           /\ rec.log[Len(rec.log)].e = "ok"

\* the primary Local failed and the first fallback, Anthropic, answered
C2_Witness ==
    \E c \in Calls :
        /\ calls[c].pc = "done"
        /\ calls[c].result.kind = "ok"
        /\ \E i, j \in 1..Len(calls[c].log) :
              /\ calls[c].log[i] = Ev("fail", "Local", 0)
              /\ calls[c].log[j] = Ev("ok", "Anthropic", 1)

\* the events of log that dispose of the candidate at position role
Disposed(log, role) ==
    {k \in 1..Len(log) : log[k].role = role /\ log[k].e \in {"skip", "unavail", "fail"}}

\* the flag query that decides the availability of provider p
FlagOn(p) == IF p = "Local" THEN isEnabled("local_llm") ELSE isEnabled("streaming_responses")

\* C3 (as claimed): within one generate dispatch no provider has its generate
\* invoked more than once, and the fallbacks are the concrete providers other
\* than the primary.
C3_NoProviderTwice ==
    \A c \in Calls :
        LET rec == calls[c] IN
        /\ \A p \in Providers :
              Cardinality({k \in EventsAt(rec.log, "call") : rec.log[k].p = p}) <= 1
        /\ rec.pc \in {"gInit", "gPrimAvail", "gPrimCall", "gFbAvail", "gFbCall"}
              => \A k \in 1..Len(fallbackProviders) : fallbackProviders[k] # primaryProvider

C5_SuccessResets ==
    [][\A c \in Calls : \A ev \in NewEvents(c) :
          /\ ev.e \in {"ok", "sok"}
                => failureCount'[ev.p] = 0 /\ lastFailureTime'[ev.p] = Absent
          /\ ev.e = "ok"
                => /\ calls'[c].pc = "done"
                   /\ calls'[c].result.kind = "ok"
                   /\ calls'[c].result.provider = ev.p
                   /\ calls'[c].log[Len(calls'[c].log)] = ev]_vars

\* C6: when a generate dispatch ends without any candidate having answered, it
\* ends with the all-providers-unavailable error, every candidate (the primary
\* and each fallback position) having been passed over or failed; and in no
\* dispatch is a candidate checked or called a second time.
C6_Exhaustion ==
    \A c \in Calls :
        LET rec == calls[c]
            roles == 0..Len(fallbackProviders)
        IN
        (rec.pc = "done" /\ \E k \in 1..Len(rec.log) : rec.log[k].e \in {"check", "skip"})
        => /\ EventsAt(rec.log, "ok") = {}
                 => /\ rec.result = ErrorResult
                    /\ \A r \in roles : Cardinality(Disposed(rec.log, r)) = 1
           /\ \A r \in roles :
                 /\ Cardinality({k \in EventsAt(rec.log, "call") : rec.log[k].role = r}) <= 1
                 /\ Cardinality({k \in 1..Len(rec.log) :
                        rec.log[k].role = r /\ rec.log[k].e \in {"check", "skip"}}) <= 1

\* a dispatch ended in the error after its last candidate failed, an earlier
\* one having been passed over
C6_Witness ==
    \E c \in Calls :
        LET rec == calls[c] IN
        /\ rec.pc = "done"
        /\ rec.op = "generate"
        /\ rec.result = ErrorResult
        /\ \E k \in EventsAt(rec.log, "fail") : rec.log[k].role = 2
        /\ \E k \in 1..Len(rec.log) : rec.log[k].e \in {"skip", "unavail"}

\* C7 (as claimed): when the primary provider's stream fails during the
\* accessor's stream call, the accessor runs the generate dispatch with the
\* fallback chain, and when that dispatch answers the caller receives the
\* response through onComplete.
C7_StreamDegrades ==
    \A c \in Calls :
        LET rec == calls[c] IN
        (rec.pc = "done" /\ EventsAt(rec.log, "sfail") # {})
        => /\ \E k \in 1..Len(rec.log) : rec.log[k].e \in {"check", "skip"}
           /\ EventsAt(rec.log, "ok") # {}
                 => rec.cb[Len(rec.cb)] = OnComplete(rec.result.content)

\* the positions of the callback sequence cb that hold a terminal callback
Terminals(cb) == {k \in 1..Len(cb) : cb[k].k \in {"complete", "error"}}

C9_SwitchPins ==
    pinned # "none"
    => /\ primaryProvider = pinned
       /\ \A c \in Calls : calls[c].log # <<>> => calls[c].log[1].p = pinned

\* the provider the priority list of the flag queries yields
AutoReference ==
    CASE isEnabled("strict_local_mode") -> "Local"
      [] ~isEnabled("strict_local_mode") /\ isEnabled("local_llm") -> "Local"
      [] ~isEnabled("strict_local_mode") /\ ~isEnabled("local_llm") -> "Anthropic"

\* C10: the provider a request resolves auto to is the one the priority list
\* yields for the current flag queries: Local when strict-local-mode is
\* enabled, whatever the other flags; otherwise Local when local-model is
\* enabled; otherwise Anthropic.
C10_AutoResolution ==
    \A c \in Calls :
        calls[c].pc \in {"gInit", "sInit"}
        => /\ primaryProvider = AutoReference
           /\ isEnabled("strict_local_mode") => primaryProvider = "Local"

\* auto was resolved to Local under strict-local-mode with both other flags off
C10_Witness ==
    \E c \in Calls :
        /\ calls[c].pc \in {"gInit", "sInit"}
        /\ isEnabled("strict_local_mode")
        /\ ~isEnabled("local_llm")
        /\ ~isEnabled("streaming_responses")
        /\ primaryProvider = "Local"

\* C11: the resolution of auto is not kept from one request to the next: the
\* step that opens a generate or stream request sets the primary to the
\* provider the flag queries of that moment resolve to, whatever the primary
\* was before, and the first candidate the request handles is that provider.
C11_NoMemoizedAuto ==
    /\ [][\A c \in Calls :
            (calls[c].pc = "idle" /\ calls'[c].pc # "idle")
            => primaryProvider' = AutoReference']_vars
    /\ [](\A c \in Calls :
            calls[c].log # <<>>
            => /\ calls[c].log[1].role = 0
               /\ calls[c].log[1].p = AutoReference)

\* an earlier request had Local as its primary (only a primary Local is ever
\* called, and it failed then); the flags were changed since, and the request
\* now in progress handles Anthropic first
C11_Witness ==
    \E c \in Calls :
        /\ failureCount["Local"] >= 1
        /\ calls[c].log # <<>>
        /\ calls[c].log[1] = Ev("check", "Anthropic", 0)
        /\ primaryProvider = "Anthropic"

\* C12 (as claimed): getCurrentProvider(), which returns primaryProvider,
\* gives the same provider before and after every step that is neither a
\* switchProvider (the only step that changes the primary while leaving every
\* request record alone) nor a change of the flag state.
C12_CurrentProviderStable ==
    [][primaryProvider' # primaryProvider
         => \/ calls' = calls
            \/ <<flags, initialized, userPercentile>>' # <<flags, initialized, userPercentile>>]_vars

C14_AllFailOnce ==
    \A c \in Calls :
        LET rec == calls[c]
            fails == {rec.log[k] : k \in EventsAt(rec.log, "fail")}
        IN
        (/\ rec.pc = "done" /\ rec.op = "generate" /\ rec.fresh
         /\ Cardinality(EventsAt(rec.log, "fail")) = 3
         /\ fails = {Ev("fail", "Local", 0), Ev("fail", "Anthropic", 1),
                     Ev("fail", "OpenAI", 2)})
        => /\ rec.result = ErrorResult
           /\ \A p \in Providers : failureCount[p] = 1

\* the request began with the circuit state empty; Local, Anthropic and OpenAI
\* were called in turn and failed, and the request is over
C14_Witness ==
    \E c \in Calls :
        LET rec == calls[c] IN
        /\ rec.pc = "done" /\ rec.op = "generate" /\ rec.fresh
        /\ rec.log = <<Ev("check", "Local", 0), Ev("call", "Local", 0),
                       Ev("fail", "Local", 0),
                       Ev("check", "Anthropic", 1), Ev("call", "Anthropic", 1),
                       Ev("fail", "Anthropic", 1),
                       Ev("check", "OpenAI", 2), Ev("call", "OpenAI", 2),
                       Ev("fail", "OpenAI", 2)>>

\* C15 (as claimed): no error thrown by a provider call passes the accessor
\* untranslated: a generate request ends with a response or with the
\* all-providers-unavailable error, and every error a stream request hands to
\* onError is an error the accessor created, never the one a provider threw.
C15_NoRawProviderError ==
    \A c \in Calls :
        LET rec == calls[c] IN
        /\ (rec.pc = "done" /\ rec.op = "generate") => rec.result.kind \in {"ok", "error"}
        /\ \A k \in 1..Len(rec.cb) :
              rec.cb[k].k = "error" => rec.cb[k].err.by = "accessor"

\* C16 (as claimed): every call of a provider's generateResponse that fails,
\* whatever the provider and whatever the cause, the disabled state of Local
\* included, ends with an error thrown to the caller and with an audit failure
\* event logged by that provider.
C16_FailureRaisesAndAudits ==
    \A c \in Calls :
        LET rec == calls[c] IN
        (/\ rec.pc = "done" /\ rec.op = "pGenerate"
         /\ EventsAt(rec.log, "pfail") # {})
        => /\ rec.result = ThrownResult(rec.callee)
           /\ \E k \in 1..Len(rec.audit) :
                 rec.audit[k].action = "auth_failed" /\ rec.audit[k].by = rec.callee

\* C17 (as claimed): when generateResponse or streamResponse of a provider
\* that requires the network (OpenAI, Anthropic) is called while its
\* isAvailable() answers false, the call makes no request to the network.
C17_UnavailableFailsFast ==
    \A c \in Calls :
        LET rec == calls[c] IN
        (/\ rec.op \in {"pGenerate", "pStream"}
         /\ requiresNetwork(rec.callee)
         /\ ~rec.avail)
        => EventsAt(rec.log, "net") = {}

\* C18: for each concrete kind at most one provider instance is ever
\* constructed; an instance once cached is never replaced, so every later get
\* of the kind, direct or through auto, returns it; and the step that opens a
\* request leaves an instance cached for anthropic, for openai and for the
\* kind auto resolved to.
C18_OneInstancePerKind ==
    /\ [](\A k \in ConcreteKinds :
            /\ providers[k].made <= 1
            /\ providers[k].cached # NoInstance <=> providers[k].made = 1)
    /\ [][/\ \A k \in ConcreteKinds :
               providers[k].cached # NoInstance => providers'[k] = providers[k]
          /\ \A c \in Calls :
               (calls[c].pc = "idle" /\ calls'[c].op \in {"generate", "stream"})
               => \A k \in ConcreteKinds :
                     (k \in {"anthropic", "openai"} \/ KindName(k) = primaryProvider')
                     => providers'[k].cached # NoInstance]_vars

\* Local's instance was created when auto first resolved to Local (that
\* request called Local, which failed), and a later request has got Local
\* through auto again
C18_Witness ==
    \E c \in Calls :
        /\ providers["local"] = [cached |-> 1, made |-> 1]
        /\ failureCount["Local"] >= 1
        /\ calls[c].pc = "gInit"
        /\ primaryProvider = "Local"

\* C19 (as claimed): every provider call of the accessor that fails, in the
\* generate dispatch or on the stream path, adds exactly 1 to that provider's
\* failure count and sets its last-failure time to the current time, and the
\* accessor goes on to the next candidate (or, past the last one, ends in the
\* all-providers-unavailable error).
C19_FailureCounted ==
    [][\A c \in Calls : \A ev \in NewEvents(c) :
          ev.e \in {"fail", "sfail"}
          => /\ failureCount'[ev.p] = failureCount[ev.p] + 1
             /\ lastFailureTime'[ev.p] = now'
             /\ \/ calls'[c].pc = "gFbAvail"
                \/ /\ calls'[c].pc = "done"
                   /\ calls'[c].result = ErrorResult
                   /\ \E k \in 1..Len(calls'[c].log) :
                         calls'[c].log[k].role = Len(fallbackProviders)]_vars

\* C20: for every failed attempt of a request, primary or fallback, the audit
\* sink has received, between the call and the accessor's handling of the
\* failure, an auth_failed event that names the failing provider; and right
\* before every call of a fallback it has received the accessor's
\* settings_change event naming that fallback.
C20_AuditTrail ==
    \A c \in Calls :
        LET rec == calls[c] IN
        /\ \A k \in EventsAt(rec.log, "fail") \cup EventsAt(rec.log, "sfail") :
              \E a \in 1..Len(rec.audit) :
                 /\ rec.audit[a].action = "auth_failed"
                 /\ rec.audit[a].names = rec.log[k].p
                 /\ rec.audit[a].at = k - 1
        /\ \A k \in EventsAt(rec.log, "call") :
              rec.log[k].role >= 1
              => \E a \in 1..Len(rec.audit) :
                    /\ rec.audit[a].action = "settings_change"
                    /\ rec.audit[a].by = "accessor"
                    /\ rec.audit[a].names = rec.log[k].p
                    /\ rec.audit[a].at = k - 1

\* the primary failed, the first fallback failed and the second answered; the
\* sink holds the failure events of both, the accessor's own event for the
\* primary, the two fallback announcements and the completion event
C20_Witness ==
    \E c \in Calls :
        LET rec == calls[c] IN
        /\ rec.pc = "done" /\ rec.op = "generate"
        /\ \E i, j \in EventsAt(rec.log, "fail") :
              rec.log[i].role = 0 /\ rec.log[j].role = 1
        /\ rec.result.kind = "ok" /\ rec.result.provider = "OpenAI"
        /\ Len(rec.audit) = 6
        /\ rec.audit[2].by = "accessor" /\ rec.audit[2].names = "none"

\* C21 (as claimed): the accessor invokes no provider, neither in the generate
\* dispatch nor through its streaming entry point, while that provider has 3
\* or more failures and at most 60000 ms have passed since its last failure.
C21_CircuitReadBeforeEveryCall ==
    [][\A c \in Calls : \A ev \in NewEvents(c) :
          ev.e \in {"call", "scall"}
          => ~CircuitOpen(failureCount, lastFailureTime, now, ev.p)]_vars

Outcomes ==
    UNION {{ev \in NewEvents(c) : ev.e \in {"ok", "fail"}} : c \in {c \in Calls : calls'[c] # calls[c]}}

\* C23: with generate requests overlapping on one accessor no update of the
\* circuit state is lost: every recorded failure of a provider adds exactly 1
\* to the count that all requests share and stamps the current time, every
\* recorded success sets the count to 0 and clears the time, and a step that
\* records no outcome for a provider leaves its count and time as they were.
C23_NoLostUpdate ==
    [][LET outs == Outcomes IN
       /\ \A ev \in outs :
             IF ev.e = "fail"
             THEN /\ failureCount'[ev.p] = failureCount[ev.p] + 1
                  /\ lastFailureTime'[ev.p] = now
             ELSE failureCount'[ev.p] = 0 /\ lastFailureTime'[ev.p] = Absent
       /\ \A p \in Providers :
             (\A ev \in outs : ev.p # p)
             => /\ failureCount'[p] = failureCount[p]
                /\ lastFailureTime'[p] = lastFailureTime[p]]_vars

\* two requests began while the circuit state was empty, both called
\* Anthropic while the other's call was in flight, both calls failed, and
\* both failures are in the count
C23_Witness ==
    /\ \A c \in Calls :
          /\ calls[c].fresh
          /\ \E k \in EventsAt(calls[c].log, "fail") : calls[c].log[k].p = "Anthropic"
          /\ Cardinality(EventsAt(calls[c].log, "fail")) = 1
    /\ failureCount["Anthropic"] = 2

\* the place of a provider in the chain Local -> Anthropic -> OpenAI
ChainRank(p) == CASE p = "Local" -> 1 [] p = "Anthropic" -> 2 [] p = "OpenAI" -> 3

\* the positions of log that belong to the generate dispatch
DispatchAt(log) ==
    {k \in 1..Len(log) : log[k].e \in {"check", "skip", "unavail", "call", "ok", "fail"}}

\* C24: in every generate dispatch the providers are handled in the order
\* Local, Anthropic, OpenAI (OpenAI never before Anthropic, Local never after
\* either of them), and the dispatch ends in the all-providers-unavailable
\* error only after OpenAI has been reached: checked, or passed over because
\* its circuit is open.
C24_ChainOrder ==
    \A c \in Calls :
        LET rec == calls[c]
            D == DispatchAt(rec.log)
        IN
        /\ \A i, j \in D :
              i < j => ChainRank(rec.log[i].p) <= ChainRank(rec.log[j].p)
        /\ (rec.pc = "done" /\ D # {} /\ rec.result = ErrorResult)
           => \E k \in D : rec.log[k].p = "OpenAI" /\ rec.log[k].e \in {"check", "skip"}

\* Local was called and failed, Anthropic and then OpenAI were found
\* unavailable, and the dispatch ended in the error
C24_Witness ==
    \E c \in Calls :
        LET rec == calls[c] IN
        /\ rec.pc = "done" /\ rec.op = "generate"
        /\ rec.result = ErrorResult
        /\ rec.log = <<Ev("check", "Local", 0), Ev("call", "Local", 0),
                       Ev("fail", "Local", 0),
                       Ev("check", "Anthropic", 1), Ev("unavail", "Anthropic", 1),
                       Ev("check", "OpenAI", 2), Ev("unavail", "OpenAI", 2)>>

\* C25 (as claimed): within one generate request the primary whose circuit
\* was checked is the provider whose generateResponse is invoked, and the
\* provider for which the failure or success is recorded is the one that was
\* invoked, whatever runs between the request's awaits.
C25_OnePrimaryPerRequest ==
    /\ [](\A c \in Calls :
            LET rec == calls[c] IN
            \A i \in EventsAt(rec.log, "check"), j \in EventsAt(rec.log, "call") :
               (rec.log[i].role = 0 /\ rec.log[j].role = 0) => rec.log[i].p = rec.log[j].p)
    /\ [][\A c \in Calls : \A ev \in NewEvents(c) :
            /\ (ev.e = "fail" /\ ev.role = 0)
                  => failureCount'[ev.p] = failureCount[ev.p] + 1
            /\ (ev.e = "ok" /\ ev.role = 0)
                  => failureCount'[ev.p] = 0 /\ lastFailureTime'[ev.p] = Absent]_vars

\* C26: in every state a provider has a last-failure time exactly when its
\* failure count is at least 1; so a provider with 3 or more failures has one,
\* and whether it is let through is decided by the time passed since that
\* failure, never by a missing time read as 0.
C26_TimestampIffFailures ==
    \A p \in Providers :
        /\ lastFailureTime[p] # Absent <=> failureCount[p] >= 1
        /\ failureCount[p] >= 3
              => /\ lastFailureTime[p] # Absent
                 /\ shouldAttemptProvider(failureCount, lastFailureTime, now, p)
                       <=> now - lastFailureTime[p] > 60000

\* Anthropic has 3 failures and a last-failure time, and a request has just
\* recorded a success of OpenAI, whose time is cleared
C26_Witness ==
    \E c \in Calls :
        LET rec == calls[c] IN
        /\ failureCount["Anthropic"] >= 3
        /\ lastFailureTime["Anthropic"] # Absent
        /\ rec.pc = "done"
        /\ rec.log # <<>>
        /\ rec.log[Len(rec.log)] = Ev("ok", "OpenAI", 2)
        /\ failureCount["OpenAI"] = 0 /\ lastFailureTime["OpenAI"] = Absent

\* the requests whose call to provider p is in flight
InFlight(p) ==
    {c \in Calls : calls[c].pc \in {"gPrimCall", "gFbCall"} /\ calls[c].callee = p}

\* C27 (as claimed): while provider P has 3 or more failures and more than
\* 60000 ms have passed since the last of them (its circuit was open and the
\* cooldown has elapsed, no outcome having been recorded since), at most one
\* call to P is in flight.
C27_SingleProbe ==
    \A p \in Providers :
        (failureCount[p] >= 3 /\ now - LastFailure(lastFailureTime, p) > 60000)
        => Cardinality(InFlight(p)) <= 1

\* the texts handed to onToken, in order
TokenTexts(cb) == [k \in 1..Cardinality({j \in 1..Len(cb) : cb[j].k = "token"}) |-> cb[k].text]

\* the number of spaces in text
Spaces(text) == Cardinality({k \in 1..Len(text) : text[k] = " "})

\* C28: when a provider's stream has completed, every onToken text is a
\* prefix of the generated content, the number of onToken calls is the number
\* of space-separated segments of the content (its spaces plus one, so at
\* least one), and the last onToken text is the content onComplete delivers.
C28_TokensAccumulate ==
    \A c \in Calls :
        LET rec == calls[c]
            toks == TokenTexts(rec.cb)
            content == rec.result.content
        IN
        (/\ rec.pc = "done"
         /\ \E k \in 1..Len(rec.log) : rec.log[k].e = "sok"
         /\ rec.cb # <<>> /\ rec.cb[Len(rec.cb)].k = "complete")
        => /\ Len(rec.cb) = Len(toks) + 1
           /\ \A k \in 1..Len(toks) :
                 /\ Len(toks[k]) <= Len(content)
                 /\ toks[k] = SubSeq(content, 1, Len(toks[k]))
           /\ Len(toks) = Spaces(content) + 1
           /\ toks[Len(toks)] = content
           /\ rec.cb[Len(rec.cb)] = OnComplete(content)

\* a provider called directly streamed a content of two segments: two
\* onToken calls, the second with the whole content, then onComplete
C28_Witness ==
    \E c \in Calls :
        LET rec == calls[c] IN
        /\ rec.pc = "done" /\ rec.op = "pStream"
        /\ Spaces(rec.result.content) = 1
        /\ Len(rec.cb) = 3
        /\ rec.cb[2] = OnToken(rec.result.content)
        /\ rec.cb[3] = OnComplete(rec.result.content)

\* ---------------------------------------------------------------------------
\* TaskQueue: add, the running task's completion, and clear
\* ---------------------------------------------------------------------------

\* add(task): push the wrapper, then process().  Tasks are numbered in the
\* order they are added.
Add(t) ==
    /\ taskQueue.state[t] = "new"
    /\ t = taskQueue.added + 1
    /\ LET after == process([taskQueue EXCEPT !.queue = Append(@, t),
                                              !.state[t] = "queued",
                                              !.promise[t] = "pending",
                                              !.added = t])
       IN taskQueue' = [after EXCEPT !.waited =
                            IF after.state[t] = "queued" THEN @ \cup {t} ELSE @]
    /\ UNCHANGED <<serviceVars, lruCache>>

\* The wrapper after `await task()`: resolve(result) or reject(error).  The
\* slot is still counted in activeCount until process() resumes.
TaskSettles(t, ok) ==
    /\ taskQueue.state[t] = "running"
    /\ taskQueue' = [taskQueue EXCEPT !.state[t] = "settled",
                                      !.promise[t] = IF ok THEN "resolved" ELSE "rejected"]
    /\ UNCHANGED <<serviceVars, lruCache>>

\* process() after `await task()`: finally { activeCount--; process() }.
TaskReturns(t) ==
    /\ taskQueue.state[t] = "settled"
    /\ taskQueue' = process([taskQueue EXCEPT !.activeCount = @ - 1,
                                              !.state[t] = "done"])
    /\ UNCHANGED <<serviceVars, lruCache>>

\* clear(): this.queue = [].  The dropped wrappers are never invoked.
Clear ==
    /\ taskQueue' = [taskQueue EXCEPT
           !.queue = <<>>,
           !.state = [t \in Tasks |->
                          IF \E i \in 1..Len(taskQueue.queue) : taskQueue.queue[i] = t
                          THEN "cleared" ELSE @[t]]]
    /\ UNCHANGED <<serviceVars, lruCache>>

TaskQueueInit ==
    /\ ServiceInit
    /\ taskQueue \in {NewTaskQueue(n) : n \in 1..MaxConcurrency}
    /\ lruCache = NewLRUCache(1)

TaskQueueNext ==
    \/ \E t \in Tasks : Add(t)
    \/ \E t \in Tasks, ok \in BOOLEAN : TaskSettles(t, ok)
    \/ \E t \in Tasks : TaskReturns(t)
    \/ Clear

\* Every task handed to the queue settles, and the continuation of
\* process() is a microtask that always runs.
TaskQueueSpec ==
    /\ TaskQueueInit
    /\ [][TaskQueueNext]_vars
    /\ WF_vars(\E t \in Tasks, ok \in BOOLEAN : TaskSettles(t, ok))
    /\ WF_vars(\E t \in Tasks : TaskReturns(t))

\* ---------------------------------------------------------------------------
\* LRUCache: get and set
\* ---------------------------------------------------------------------------

CacheGet(key) ==
    /\ lruCache' = get(lruCache, key)
    /\ UNCHANGED <<serviceVars, taskQueue>>

CacheSet(key, value) ==
    /\ lruCache' = set(lruCache, key, value)
    /\ UNCHANGED <<serviceVars, taskQueue>>

LRUInit ==
    /\ ServiceInit
    /\ taskQueue = NewTaskQueue(DefaultConcurrency)
    /\ lruCache \in {NewLRUCache(n) : n \in 1..MaxCacheSize}

LRUNext ==
    \/ \E key \in Keys : CacheGet(key)
    \/ \E key \in Keys, value \in Values : CacheSet(key, value)

LRUSpec == LRUInit /\ [][LRUNext]_vars

\* ---------------------------------------------------------------------------

\* The tasks occupying a slot of the queue.
Running == {t \in Tasks : taskQueue.state[t] = "running"}

LeastRecent(c) ==
    LET order == SelectSeq(c.touched, LAMBDA k : MapHas(c.cache, k))
    IN Head(order)

\* The keys a step removes from the cache.
Evicted == MapKeys(lruCache.cache) \ MapKeys(lruCache'.cache)

\* C30: an LRUCache never holds more than maxSize entries; a set of a new
\* key into a full cache evicts exactly the entry least recently touched by
\* get or set; a set of an existing key evicts nothing.
C30_EvictsLeastRecentlyTouched ==
    /\ [](Len(lruCache.cache) <= lruCache.maxSize)
    /\ [][lruCache'.last.op = "set" =>
              IF MapHas(lruCache.cache, lruCache'.last.key)
              THEN Evicted = {}
              ELSE IF Len(lruCache.cache) >= lruCache.maxSize
                   THEN Evicted = {LeastRecent(lruCache)}
                   ELSE Evicted = {}]_vars

====
